---- MODULE Spec2Model ----
(***************************************************************************)
(* A model of the SRF production calculator of src/Home.py (first variant, *)
(* lines 1-954): session state, one script run per user interaction, the   *)
(* mass balance, the energy and CO2 figures and the EN 15359 classifier.   *)
(*                                                                         *)
(* Python floats are modelled by exact rationals (numerator and            *)
(* denominator are naturals of unbounded size, kept as sequences of        *)
(* four-digit limbs, least significant first), so that 0.95 is 95/100 and  *)
(* an equality or an order between two computed values is decided exactly. *)
(***************************************************************************)
EXTENDS Integers, Sequences, FiniteSets, TLC

----------------------------------------------------------------------------
(* Naturals of unbounded size.                                             *)

Limb(a, i) == IF i <= Len(a) THEN a[i] ELSE 0

RECURSIVE BigNorm(_)
BigNorm(a) ==
    IF a = <<>> THEN a
    ELSE IF a[Len(a)] = 0 THEN BigNorm(SubSeq(a, 1, Len(a) - 1)) ELSE a

RECURSIVE BigFromNat(_)
BigFromNat(n) == IF n = 0 THEN <<>> ELSE <<n % 10000>> \o BigFromNat(n \div 10000)

RECURSIVE BigAddC(_, _, _, _)
BigAddC(a, b, i, c) ==
    IF i > Len(a) /\ i > Len(b)
    THEN IF c = 0 THEN <<>> ELSE <<c>>
    ELSE LET s == Limb(a, i) + Limb(b, i) + c
         IN  <<s % 10000>> \o BigAddC(a, b, i + 1, s \div 10000)

BigAdd(a, b) == BigAddC(a, b, 1, 0)

RECURSIVE BigSubC(_, _, _, _)
BigSubC(a, b, i, c) ==
    IF i > Len(a) THEN <<>>
    ELSE LET s == a[i] - Limb(b, i) - c
         IN  IF s < 0 THEN <<s + 10000>> \o BigSubC(a, b, i + 1, 1)
                      ELSE <<s>> \o BigSubC(a, b, i + 1, 0)

\* a - b for a >= b
BigSub(a, b) == BigNorm(BigSubC(a, b, 1, 0))

RECURSIVE BigMulSmallC(_, _, _, _)
BigMulSmallC(a, k, i, c) ==
    IF i > Len(a)
    THEN IF c = 0 THEN <<>> ELSE <<c>>
    ELSE LET s == a[i] * k + c
         IN  <<s % 10000>> \o BigMulSmallC(a, k, i + 1, s \div 10000)

\* a * k for a limb k
BigMulSmall(a, k) == IF k = 0 THEN <<>> ELSE BigMulSmallC(a, k, 1, 0)

RECURSIVE BigMulAt(_, _, _)
BigMulAt(a, b, i) ==
    IF i > Len(b) THEN <<>>
    ELSE BigAdd(BigMulSmall(a, b[i]), <<0>> \o BigMulAt(a, b, i + 1))

BigMul(a, b) ==
    IF a = <<>> \/ b = <<>> THEN <<>>
    ELSE IF b = <<1>> THEN a
    ELSE IF a = <<1>> THEN b
    ELSE IF Len(a) >= Len(b) THEN BigNorm(BigMulAt(a, b, 1))
    ELSE BigNorm(BigMulAt(b, a, 1))

RECURSIVE BigCmpAt(_, _, _)
BigCmpAt(a, b, i) ==
    IF i = 0 THEN 0
    ELSE IF a[i] < b[i] THEN -1
    ELSE IF a[i] > b[i] THEN 1
    ELSE BigCmpAt(a, b, i - 1)

\* -1, 0 or 1 as a < b, a = b, a > b
BigCmp(a, b) ==
    IF Len(a) < Len(b) THEN -1
    ELSE IF Len(a) > Len(b) THEN 1
    ELSE BigCmpAt(a, b, Len(a))

\* the largest q in lo..hi with q * d <= n, given lo * d <= n < (hi + 1) * d
RECURSIVE BigQuotIn(_, _, _, _)
BigQuotIn(n, d, lo, hi) ==
    IF lo = hi THEN lo
    ELSE LET mid == (lo + hi + 1) \div 2
         IN  IF BigCmp(BigMul(d, BigFromNat(mid)), n) <= 0
             THEN BigQuotIn(n, d, mid, hi)
             ELSE BigQuotIn(n, d, lo, mid - 1)

\* an h = 2^k - 1 with n < (h + 1) * d
RECURSIVE BigQuotBound(_, _, _)
BigQuotBound(n, d, h) ==
    IF BigCmp(n, BigMul(d, BigFromNat(h + 1))) < 0 THEN h
    ELSE BigQuotBound(n, d, 2 * h + 1)

\* floor(n / d) for d > 0 (the quotients of this model are below 2^30)
BigQuot(n, d) == BigQuotIn(n, d, 0, BigQuotBound(n, d, 1))

----------------------------------------------------------------------------
(* Exact rationals: [neg, num, den] with den > 0; zero has num = <<>>.     *)
(* A value is not kept in lowest terms: compare with REq, RLt, RLeq.       *)

R(a, b) ==
    [neg |-> a < 0, num |-> BigFromNat(IF a < 0 THEN -a ELSE a), den |-> BigFromNat(b)]

Zero == R(0, 1)
One == R(1, 1)
Hundred == R(100, 1)

RIsZero(x) == x.num = <<>>

RNeg(x) == IF RIsZero(x) THEN x ELSE [x EXCEPT !.neg = ~x.neg]

\* the signed sum of two numerators over the common denominator d
RSum(xneg, xn, yneg, yn, d) ==
    IF xneg = yneg
    THEN [neg |-> xneg, num |-> BigAdd(xn, yn), den |-> d]
    ELSE LET c == BigCmp(xn, yn)
         IN  IF c = 0 THEN [neg |-> FALSE, num |-> <<>>, den |-> <<1>>]
             ELSE IF c > 0 THEN [neg |-> xneg, num |-> BigSub(xn, yn), den |-> d]
             ELSE [neg |-> yneg, num |-> BigSub(yn, xn), den |-> d]

RAdd(x, y) ==
    IF RIsZero(x) THEN y
    ELSE IF RIsZero(y) THEN x
    ELSE IF x.den = y.den THEN RSum(x.neg, x.num, y.neg, y.num, x.den)
    ELSE RSum(x.neg, BigMul(x.num, y.den), y.neg, BigMul(y.num, x.den),
              BigMul(x.den, y.den))

RSub(x, y) == RAdd(x, RNeg(y))

RMul(x, y) ==
    IF RIsZero(x) \/ RIsZero(y) THEN Zero
    ELSE [neg |-> x.neg # y.neg, num |-> BigMul(x.num, y.num), den |-> BigMul(x.den, y.den)]

\* x / y for y # 0 (Python raises ZeroDivisionError for y = 0)
RDiv(x, y) ==
    IF RIsZero(x) THEN Zero
    ELSE [neg |-> x.neg # y.neg, num |-> BigMul(x.num, y.den), den |-> BigMul(x.den, y.num)]

\* -1, 0 or 1 as x < y, x = y, x > y
RCmp(x, y) ==
    IF RIsZero(x) /\ RIsZero(y) THEN 0
    ELSE IF RIsZero(x) THEN (IF y.neg THEN 1 ELSE -1)
    ELSE IF RIsZero(y) THEN (IF x.neg THEN -1 ELSE 1)
    ELSE IF x.neg /\ ~y.neg THEN -1
    ELSE IF ~x.neg /\ y.neg THEN 1
    ELSE LET c == BigCmp(BigMul(x.num, y.den), BigMul(y.num, x.den))
         IN  IF x.neg THEN -c ELSE c

REq(x, y) == RCmp(x, y) = 0
RLt(x, y) == RCmp(x, y) < 0
RLeq(x, y) == RCmp(x, y) <= 0

\* Python's round(x, 2): the nearest multiple of 0.01, a tie going to the even one
Round2(x) ==
    IF RIsZero(x) THEN Zero
    ELSE LET n2 == BigMulSmall(x.num, 200)
             q  == BigQuot(n2, x.den)          \* floor(200 * |x|)
             exact == BigCmp(BigMul(x.den, BigFromNat(q)), n2) = 0
             k  == IF q % 2 = 0 THEN q \div 2
                   ELSE IF exact /\ ((q - 1) \div 2) % 2 = 0 THEN (q - 1) \div 2
                   ELSE (q + 1) \div 2
         IN  IF k = 0 THEN Zero ELSE [neg |-> x.neg, num |-> BigFromNat(k), den |-> <<100>>]

----------------------------------------------------------------------------
(* Constants of the program.                                               *)

None == "None"

\* a name that holds no number in this run: the metric is not drawn, no report
\* is written, or the assignment was not reached
Unbound == [unbound |-> TRUE]

\* an exception of type e leaves the expression
Raised(e) == [raised |-> e]

Categories ==
    {"Plastic", "Paper & Cardboard", "Metals", "Textiles", "Organic Waste",
     "Inert Materials (wood, glass, diapers,...)", "Other Materials"}

\* MJ/kg
HHV_VALUES ==
    [k \in Categories |->
        CASE k = "Plastic"           -> R(365, 10)
          [] k = "Paper & Cardboard" -> R(158, 10)
          [] k = "Metals"            -> R(0, 1)
          [] k = "Textiles"          -> R(192, 10)
          [] k = "Organic Waste"     -> R(113, 10)
          [] k = "Inert Materials (wood, glass, diapers,...)"   -> R(5, 10)
          [] k = "Other Materials"   -> R(97, 10)]

\* the catalog, in the insertion order of the dict
MethodOrder ==
    <<"Mechanical Press", "Biodrying", "Rotary Drum", "Belt Dryer", "Solar Tunnel">>

Methods == {MethodOrder[i] : i \in 1..Len(MethodOrder)}

\* the catalog with a Solar Tunnel that leaves the upper end of its range
DRYING_METHODS_damp ==
    [m \in Methods |->
        CASE m = "Mechanical Press" ->
                [applicable_moisture |-> <<R(55, 1), R(65, 1)>>,
                 output_moisture |-> R(40, 1), loss |-> R(5, 100)]
          [] m = "Biodrying" ->
                [applicable_moisture |-> <<R(35, 1), R(55, 1)>>,
                 output_moisture |-> R(17, 1), loss |-> R(8, 100)]
          [] m = "Rotary Drum" ->
                [applicable_moisture |-> <<R(17, 1), R(35, 1)>>,
                 output_moisture |-> R(10, 1), loss |-> R(12, 100)]
          [] m = "Belt Dryer" ->
                [applicable_moisture |-> <<R(25, 1), R(35, 1)>>,
                 output_moisture |-> R(15, 1), loss |-> R(6, 100)]
          [] m = "Solar Tunnel" ->
                [applicable_moisture |-> <<R(35, 1), R(45, 1)>>,
                 output_moisture |-> R(45, 1), loss |-> R(4, 100)]]

\* DRYING_METHODS, without the fields the calculations do not read
DRYING_METHODS ==
    [m \in Methods |->
        CASE m = "Mechanical Press" ->
                [applicable_moisture |-> <<R(55, 1), R(65, 1)>>,
                 output_moisture |-> R(40, 1), loss |-> R(5, 100)]
          [] m = "Biodrying" ->
                [applicable_moisture |-> <<R(35, 1), R(55, 1)>>,
                 output_moisture |-> R(17, 1), loss |-> R(8, 100)]
          [] m = "Rotary Drum" ->
                [applicable_moisture |-> <<R(17, 1), R(35, 1)>>,
                 output_moisture |-> R(10, 1), loss |-> R(12, 100)]
          [] m = "Belt Dryer" ->
                [applicable_moisture |-> <<R(25, 1), R(35, 1)>>,
                 output_moisture |-> R(15, 1), loss |-> R(6, 100)]
          [] m = "Solar Tunnel" ->
                [applicable_moisture |-> <<R(35, 1), R(45, 1)>>,
                 output_moisture |-> R(20, 1), loss |-> R(4, 100)]]

ShredTypes == {"Fine (<50mm)", "Medium (50-100mm)", "Rough (>100mm)"}

\* the match statement on shred_type
shred_loss(shred_type) ==
    CASE shred_type = "Fine (<50mm)"      -> R(5, 100)
      [] shred_type = "Medium (50-100mm)" -> R(17, 1000)
      [] shred_type = "Rough (>100mm)"    -> R(8, 1000)

\* st.session_state.composition and st.session_state.contaminants as first created
InitialComposition == [k \in Categories |-> Zero]
InitialContaminants ==
    [Chlorine |-> Zero, Mercury_median |-> Zero, Mercury_80th |-> Zero]

----------------------------------------------------------------------------
(* Helper functions and the blocks of the script.                          *)

RECURSIVE SumOver(_, _)
SumOver(f, S) ==
    IF S = {} THEN Zero
    ELSE LET k == CHOOSE x \in S : TRUE
         IN  RAdd(f[k], SumOver(f, S \ {k}))

\* sum(st.session_state.composition.values())
Total(comp) == SumOver(comp, Categories)

\* normalize_composition adding the same amount to every entry
normalize_composition_shifted(comp) ==
    LET total == Total(comp)
    IN  IF RIsZero(total) THEN comp
        ELSE LET shift == RDiv(RSub(Hundred, total), R(Cardinality(Categories), 1))
             IN  [k \in Categories |-> RAdd(comp[k], shift)]

\* normalize_composition scaling by 100/total below 100 and by 50/total above
normalize_composition_halved(comp) ==
    LET total == Total(comp)
    IN  IF RIsZero(total) THEN comp
        ELSE LET factor == IF RLt(Hundred, total) THEN RDiv(R(50, 1), total)
                           ELSE RDiv(Hundred, total)
             IN  [k \in Categories |-> RMul(comp[k], factor)]

normalize_composition(comp) ==
    LET total == Total(comp)
    IN  IF RIsZero(total) THEN comp
        ELSE LET factor == RDiv(Hundred, total)
             IN  [k \in Categories |-> RMul(comp[k], factor)]

\* the lower end of the moisture slider
min_moisture(comp) ==
    IF ~RIsZero(comp["Organic Waste"])
    THEN LET m == RMul(R(7, 10), comp["Organic Waste"])
         IN  IF RLt(R(50, 1), m) THEN R(50, 1) ELSE m
    ELSE Zero

\* the value the moisture slider shows when it is first drawn
default_moisture(comp) ==
    IF ~RIsZero(comp["Organic Waste"]) THEN min_moisture(comp) ELSE R(25, 1)

InRange(details, moisture) ==
    /\ RLeq(details.applicable_moisture[1], moisture)
    /\ RLeq(moisture, details.applicable_moisture[2])

\* applicable_methods with the ends of the ranges left out
applicable_methods_strict(moisture) ==
    SelectSeq(MethodOrder,
              LAMBDA m : /\ RLt(DRYING_METHODS[m].applicable_moisture[1], moisture)
                         /\ RLt(moisture, DRYING_METHODS[m].applicable_moisture[2]))

\* [method for method, details in DRYING_METHODS.items() if lo <= moisture <= hi]
applicable_methods(moisture) ==
    SelectSeq(MethodOrder, LAMBDA m : InRange(DRYING_METHODS[m], moisture))

Range(s) == {s[i] : i \in 1..Len(s)}

\* selectbox that keeps the stored choice whether or not it is still an option
selectbox_sticky(options, stored) ==
    IF stored # None THEN stored
    ELSE IF options = <<>> THEN None
    ELSE options[1]

\* st.selectbox(options=..., key=...): the stored choice while it is still an
\* option, else the first option; None when there is no option
selectbox(options, stored) ==
    IF options = <<>> THEN None
    ELSE IF stored \in Range(options) THEN stored
    ELSE options[1]

\* the names the "Processing Section" binds once both select boxes returned
selection(initial_moisture, dm1, dm2) ==
    [drying_method_1 |-> dm1, drying_method_2 |-> dm2,
     final_moisture |->
         IF dm1 = None THEN initial_moisture
         ELSE IF dm2 # None THEN DRYING_METHODS[dm2].output_moisture
         ELSE DRYING_METHODS[dm1].output_moisture]

\* secondary_selection with the second list filtered by the initial moisture
secondary_selection_initial(initial_moisture, dm1, stored_2) ==
    IF dm1 = None THEN selection(initial_moisture, None, None)
    ELSE selection(initial_moisture, dm1,
                   selectbox(applicable_methods(initial_moisture), stored_2))

\* the "Secondary Drying Method" select box, drawn when a primary method is set
secondary_selection(initial_moisture, dm1, stored_2) ==
    IF dm1 = None THEN selection(initial_moisture, None, None)
    ELSE selection(initial_moisture, dm1,
                   selectbox(applicable_methods(DRYING_METHODS[dm1].output_moisture),
                             stored_2))

\* drying_selection without the test of initial_moisture against 20
drying_selection_always(initial_moisture, stored_1, stored_2) ==
    secondary_selection(initial_moisture,
                        selectbox(applicable_methods(initial_moisture), stored_1),
                        stored_2)

\* the "Processing Section": which drying methods are in effect
drying_selection(initial_moisture, stored_1, stored_2) ==
    IF RLt(initial_moisture, R(20, 1))
    THEN selection(initial_moisture, None, None)
    ELSE secondary_selection(initial_moisture,
                             selectbox(applicable_methods(initial_moisture), stored_1),
                             stored_2)

\* drying_stage with the two moisture complements exchanged
drying_stage_swapped(st, method) ==
    IF method = None \/ st.error THEN st
    ELSE LET details == DRYING_METHODS[method]
         IN  IF InRange(details, st.moisture)
             THEN LET new_moisture == details.output_moisture
                      dry_mass == RMul(st.mass, RSub(One, RDiv(new_moisture, Hundred)))
                      divisor == RSub(One, RDiv(st.moisture, Hundred))
                      mass_after_drying == RDiv(dry_mass, divisor)
                  IN  IF RIsZero(divisor) THEN [st EXCEPT !.error = TRUE]
                      ELSE [mass |-> RMul(mass_after_drying, RSub(One, details.loss)),
                            moisture |-> new_moisture,
                            stages |-> Append(st.stages, method),
                            error |-> FALSE]
             ELSE st

\* drying_stage without the process loss of the method
drying_stage_lossless(st, method) ==
    IF method = None \/ st.error THEN st
    ELSE LET details == DRYING_METHODS[method]
         IN  IF InRange(details, st.moisture)
             THEN LET dry_mass == RMul(st.mass, RSub(One, RDiv(st.moisture, Hundred)))
                      new_moisture == details.output_moisture
                      divisor == RSub(One, RDiv(new_moisture, Hundred))
                  IN  IF RIsZero(divisor) THEN [st EXCEPT !.error = TRUE]
                      ELSE [mass |-> RDiv(dry_mass, divisor),
                            moisture |-> new_moisture,
                            stages |-> Append(st.stages, method),
                            error |-> FALSE]
             ELSE st

\* drying_stage without the test of the method's range
drying_stage_unchecked(st, method) ==
    IF method = None \/ st.error THEN st
    ELSE LET details == DRYING_METHODS[method]
             dry_mass == RMul(st.mass, RSub(One, RDiv(st.moisture, Hundred)))
             new_moisture == details.output_moisture
             divisor == RSub(One, RDiv(new_moisture, Hundred))
         IN  IF RIsZero(divisor) THEN [st EXCEPT !.error = TRUE]
             ELSE [mass |-> RMul(RDiv(dry_mass, divisor), RSub(One, details.loss)),
                   moisture |-> new_moisture,
                   stages |-> Append(st.stages, method),
                   error |-> FALSE]

\* one drying stage on st = [mass, moisture, stages, error]; error is set when
\* 1 - new_moisture/100 = 0 makes the division raise ZeroDivisionError
drying_stage(st, method) ==
    IF method = None \/ st.error THEN st
    ELSE LET details == DRYING_METHODS[method]
         IN  IF InRange(details, st.moisture)
             THEN LET dry_mass == RMul(st.mass, RSub(One, RDiv(st.moisture, Hundred)))
                      new_moisture == details.output_moisture
                      divisor == RSub(One, RDiv(new_moisture, Hundred))
                      mass_after_drying == RDiv(dry_mass, divisor)
                  IN  IF RIsZero(divisor) THEN [st EXCEPT !.error = TRUE]
                      ELSE [mass |-> RMul(mass_after_drying, RSub(One, details.loss)),
                            moisture |-> new_moisture,
                            stages |-> Append(st.stages, method),
                            error |-> FALSE]
             ELSE st

\* presorting without its loss
presorting_lossless(st) == [st EXCEPT !.stages = Append(@, "Presorting")]

\* mass *= 0.95
presorting(st) ==
    [st EXCEPT !.mass = RMul(@, R(95, 100)), !.stages = Append(@, "Presorting")]

\* mass *= 0.97
primary_shredding(st) ==
    [st EXCEPT !.mass = RMul(@, R(97, 100)), !.stages = Append(@, "Primary Shredding")]

\* mechanical_separation with a loss whether or not secondary shredding is selected
mechanical_separation_always(st, secondary, shred_type) ==
    [st EXCEPT !.mass = RMul(@, IF secondary THEN RSub(One, shred_loss(shred_type))
                                ELSE R(95, 100)),
               !.stages = Append(@, "Mechanical Separation")]

\* if "Secondary Shredding" in process_flow: mass *= (1 - shred_loss)
mechanical_separation(st, secondary, shred_type) ==
    IF secondary
    THEN [st EXCEPT !.mass = RMul(@, RSub(One, shred_loss(shred_type))),
                    !.stages = Append(@, "Mechanical Separation")]
    ELSE st

\* if "Secondary Shredding" in process_flow: mass *= 0.97
secondary_shredding_stage(st, secondary) ==
    IF secondary /\ ~st.error
    THEN [st EXCEPT !.mass = RMul(@, R(97, 100)),
                    !.stages = Append(@, "Secondary Shredding")]
    ELSE st

\* mass_balance with Secondary Shredding ahead of the drying stages
mass_balance_shred_first(input_mass, initial_moisture, dm1, dm2, secondary, shred_type) ==
    drying_stage(
        drying_stage(
            secondary_shredding_stage(
                mechanical_separation(
                    primary_shredding(
                        presorting([mass |-> input_mass, moisture |-> initial_moisture,
                                    stages |-> <<>>, error |-> FALSE])),
                    secondary, shred_type),
                secondary),
            dm1),
        dm2)

\* the mass balance: [mass, moisture, stages, error] at the end of the pipeline
mass_balance(input_mass, initial_moisture, dm1, dm2, secondary, shred_type) ==
    secondary_shredding_stage(
        drying_stage(
            drying_stage(
                mechanical_separation(
                    primary_shredding(
                        presorting([mass |-> input_mass, moisture |-> initial_moisture,
                                    stages |-> <<>>, error |-> FALSE])),
                    secondary, shred_type),
                dm1),
            dm2),
        secondary)

\* compute_hhv dividing by the composition total instead of 100
compute_hhv_weighted(comp) ==
    IF RIsZero(Total(comp)) THEN Zero
    ELSE RDiv(SumOver([k \in Categories |-> RMul(comp[k], HHV_VALUES[k])], Categories),
              Total(comp))

\* sum(composition[k] * HHV_VALUES[k] for k in composition) / 100
compute_hhv(comp) ==
    RDiv(SumOver([k \in Categories |-> RMul(comp[k], HHV_VALUES[k])], Categories),
         Hundred)

\* compute_ncv with the water counted as fuel: hhv * (1 + moisture/100)
compute_ncv_moist(hhv_, moisture) ==
    LET raw == Round2(RMul(RSub(RMul(hhv_, RAdd(One, RDiv(moisture, Hundred))),
                                RMul(R(2443, 1000), RDiv(moisture, Hundred))),
                           R(95, 100)))
    IN  IF RLt(raw, Zero) THEN Zero ELSE raw

\* compute_ncv without the factor 0.95
compute_ncv_unscaled(hhv_, moisture) ==
    LET raw == Round2(RSub(RMul(hhv_, RSub(One, RDiv(moisture, Hundred))),
                           RMul(R(2443, 1000), RDiv(moisture, Hundred))))
    IN  IF RLt(raw, Zero) THEN Zero ELSE raw

compute_ncv(hhv_, moisture) ==
    LET raw == Round2(RMul(RSub(RMul(hhv_, RSub(One, RDiv(moisture, Hundred))),
                                RMul(R(2443, 1000), RDiv(moisture, Hundred))),
                           R(95, 100)))
    IN  IF RLt(raw, Zero) THEN Zero ELSE raw

\* classify_ncv with strict comparisons
classify_ncv_strict(ncv_) ==
    IF RLt(R(25, 1), ncv_) THEN 1
    ELSE IF RLt(R(20, 1), ncv_) THEN 2
    ELSE IF RLt(R(15, 1), ncv_) THEN 3
    ELSE IF RLt(R(10, 1), ncv_) THEN 4
    ELSE 5

classify_ncv(ncv_) ==
    IF RLeq(R(25, 1), ncv_) THEN 1
    ELSE IF RLeq(R(20, 1), ncv_) THEN 2
    ELSE IF RLeq(R(15, 1), ncv_) THEN 3
    ELSE IF RLeq(R(10, 1), ncv_) THEN 4
    ELSE 5

\* classify_cl with strict comparisons
classify_cl_strict(cl_percent) ==
    IF RLt(cl_percent, R(2, 10)) THEN 1
    ELSE IF RLt(cl_percent, R(6, 10)) THEN 2
    ELSE IF RLt(cl_percent, R(10, 10)) THEN 3
    ELSE IF RLt(cl_percent, R(15, 10)) THEN 4
    ELSE IF RLt(cl_percent, R(30, 10)) THEN 5
    ELSE 5

classify_cl(cl_percent) ==
    IF RLeq(cl_percent, R(2, 10)) THEN 1
    ELSE IF RLeq(cl_percent, R(6, 10)) THEN 2
    ELSE IF RLeq(cl_percent, R(10, 10)) THEN 3
    ELSE IF RLeq(cl_percent, R(15, 10)) THEN 4
    ELSE IF RLeq(cl_percent, R(30, 10)) THEN 5
    ELSE 5

\* the else branch of the chlorine chain: st.warning(...)
cl_out_of_range(cl_percent) == ~RLeq(cl_percent, R(30, 10))

\* classify_hg from the median alone
classify_hg_median(hg_median, hg_80th) ==
    IF RLeq(hg_median, R(2, 100)) THEN 1
    ELSE IF RLeq(hg_median, R(3, 100)) THEN 2
    ELSE IF RLeq(hg_median, R(8, 100)) THEN 3
    ELSE IF RLeq(hg_median, R(15, 100)) THEN 4
    ELSE 5

\* classify_hg with a tier granted when either value meets its bound
classify_hg_either(hg_median, hg_80th) ==
    IF RLeq(hg_median, R(2, 100)) \/ RLeq(hg_80th, R(4, 100)) THEN 1
    ELSE IF RLeq(hg_median, R(3, 100)) \/ RLeq(hg_80th, R(6, 100)) THEN 2
    ELSE IF RLeq(hg_median, R(8, 100)) \/ RLeq(hg_80th, R(16, 100)) THEN 3
    ELSE IF RLeq(hg_median, R(15, 100)) \/ RLeq(hg_80th, R(30, 100)) THEN 4
    ELSE IF RLeq(hg_median, R(50, 100)) \/ RLeq(hg_80th, R(100, 100)) THEN 5
    ELSE 5

classify_hg(hg_median, hg_80th) ==
    IF RLeq(hg_median, R(2, 100)) /\ RLeq(hg_80th, R(4, 100)) THEN 1
    ELSE IF RLeq(hg_median, R(3, 100)) /\ RLeq(hg_80th, R(6, 100)) THEN 2
    ELSE IF RLeq(hg_median, R(8, 100)) /\ RLeq(hg_80th, R(16, 100)) THEN 3
    ELSE IF RLeq(hg_median, R(15, 100)) /\ RLeq(hg_80th, R(30, 100)) THEN 4
    ELSE IF RLeq(hg_median, R(50, 100)) /\ RLeq(hg_80th, R(100, 100)) THEN 5
    ELSE 5

\* hg_out_of_range raised only when both values exceed the class-5 bounds
hg_out_of_range_both(hg_median, hg_80th) ==
    ~RLeq(hg_median, R(50, 100)) /\ ~RLeq(hg_80th, R(100, 100))

\* the else branch of the mercury chain: st.warning(...)
hg_out_of_range(hg_median, hg_80th) ==
    ~(\/ RLeq(hg_median, R(2, 100)) /\ RLeq(hg_80th, R(4, 100))
      \/ RLeq(hg_median, R(3, 100)) /\ RLeq(hg_80th, R(6, 100))
      \/ RLeq(hg_median, R(8, 100)) /\ RLeq(hg_80th, R(16, 100))
      \/ RLeq(hg_median, R(15, 100)) /\ RLeq(hg_80th, R(30, 100))
      \/ RLeq(hg_median, R(50, 100)) /\ RLeq(hg_80th, R(100, 100)))

\* max over the first two classes only
Max3_two(a, b, c) == IF a >= b THEN a ELSE b

\* max(ncv_class, cl_class, hg_class)
Max3(a, b, c) ==
    IF a >= b /\ a >= c THEN a ELSE IF b >= c THEN b ELSE c

\* srf_emissions without fossil_carbon_fraction
srf_emissions_all_carbon(output_mass_) ==
    RMul(RMul(output_mass_, R(65, 100)), R(367, 100))

\* srf_carbon_emissions = output_mass * carbon_fraction * fossil_carbon_fraction * 3.67
srf_emissions(output_mass_) ==
    RMul(RMul(RMul(output_mass_, R(65, 100)), R(35, 100)), R(367, 100))

\* coal_carbon_emissions = coal_eq * 0.75 * 3.67
coal_emissions(coal_eq_) == RMul(RMul(coal_eq_, R(75, 100)), R(367, 100))

\* the names the "Calculations" block binds, the try having run to its end
calculated(mb, hhv_, total_energy_, srf_, coal_) ==
    [calc_error |-> FALSE, output_mass |-> mb.mass, hhv |-> hhv_,
     total_energy |-> total_energy_,
     coal_eq |-> RDiv(total_energy_, R(24, 1)),
     oil_eq |-> RDiv(total_energy_, R(42, 1)),
     effective_moisture |-> mb.moisture, stages |-> mb.stages,
     srf_carbon_emissions |-> srf_, coal_carbon_emissions |-> coal_,
     co2_avoided |-> RSub(coal_, srf_)]

\* the energy calculations, from the mass balance mb and the heating value
energy(mb, hhv_, total_energy_) ==
    calculated(mb, hhv_, total_energy_, srf_emissions(mb.mass),
               coal_emissions(RDiv(total_energy_, R(24, 1))))

\* the except branch: the names bound before the error keep no value here
calculation_error ==
    [calc_error |-> TRUE, output_mass |-> Zero, hhv |-> Zero,
     total_energy |-> Zero, coal_eq |-> Zero, oil_eq |-> Zero,
     effective_moisture |-> Zero, stages |-> <<>>,
     srf_carbon_emissions |-> Unbound, coal_carbon_emissions |-> Unbound,
     co2_avoided |-> Unbound]

try_calculations(mb, hhv_) ==
    IF mb.error THEN calculation_error ELSE energy(mb, hhv_, RMul(mb.mass, hhv_))

\* the "Calculations" block, from the values the widgets returned
calculations(input_mass_, comp, initial_moisture_, dm1, dm2, secondary, shred_type_) ==
    try_calculations(
        mass_balance(input_mass_, initial_moisture_, dm1, dm2, secondary, shred_type_),
        compute_hhv(comp))

\* 100*(1-srf_carbon_emissions/coal_carbon_emissions)
co2_percent_of(srf_, coal_) ==
    IF RIsZero(coal_) THEN Raised("ZeroDivisionError")
    ELSE RMul(Hundred, RSub(One, RDiv(srf_, coal_)))

\* results_metric without the test of coal_eq against 0
results_metric_unguarded(coal_eq_, srf_, coal_) == co2_percent_of(srf_, coal_)

\* the "CO2 Avoided (%)" metric of the results panel; None when it is not shown
results_metric(coal_eq_, srf_, coal_) ==
    IF RLt(Zero, coal_eq_) THEN co2_percent_of(srf_, coal_) ELSE Unbound

\* screen_warnings with the mercury warning reserved to class 5
screen_warnings_class5(effective_moisture_, cl_percent, hg_median, hg_80th, cl_class_, hg_class_, srf_class_) ==
    (IF RLt(R(20, 1), effective_moisture_) THEN {"High Moisture Content"} ELSE {})
    \cup (IF cl_out_of_range(cl_percent) THEN {"Chlorine content exceeds 3.0%"} ELSE {})
    \cup (IF hg_out_of_range(hg_median, hg_80th)
          THEN {"Mercury values exceed Class 5 thresholds"} ELSE {})
    \cup (IF cl_class_ = 5 THEN {"High Chlorine Content"} ELSE {})
    \cup (IF hg_class_ = 5 THEN {"High Mercury Content"} ELSE {})
    \cup (IF srf_class_ >= 4 THEN {"Class 4/5 SRF"} ELSE {})

\* the warnings of one run, on screen
screen_warnings(effective_moisture_, cl_percent, hg_median, hg_80th, cl_class_, hg_class_, srf_class_) ==
    (IF RLt(R(20, 1), effective_moisture_) THEN {"High Moisture Content"} ELSE {})
    \cup (IF cl_out_of_range(cl_percent) THEN {"Chlorine content exceeds 3.0%"} ELSE {})
    \cup (IF hg_out_of_range(hg_median, hg_80th)
          THEN {"Mercury values exceed Class 5 thresholds"} ELSE {})
    \cup (IF cl_class_ = 5 THEN {"High Chlorine Content"} ELSE {})
    \cup (IF hg_class_ >= 4 THEN {"High Mercury Content"} ELSE {})
    \cup (IF srf_class_ >= 4 THEN {"Class 4/5 SRF"} ELSE {})

\* the names the "SRF Classification" block binds
classified(ncv_, ncv_class_, cl_class_, hg_class_, srf_class_, effective_moisture_, cont) ==
    [ncv |-> ncv_, ncv_class |-> ncv_class_, cl_class |-> cl_class_,
     hg_class |-> hg_class_, srf_class |-> srf_class_,
     warnings |-> screen_warnings(effective_moisture_, cont.Chlorine,
                                  cont.Mercury_median, cont.Mercury_80th,
                                  cl_class_, hg_class_, srf_class_)]

classes(ncv_, ncv_class_, cl_class_, hg_class_, effective_moisture_, cont) ==
    classified(ncv_, ncv_class_, cl_class_, hg_class_,
               Max3(ncv_class_, cl_class_, hg_class_), effective_moisture_, cont)

classify(ncv_, effective_moisture_, cont) ==
    classes(ncv_, classify_ncv(ncv_), classify_cl(cont.Chlorine),
            classify_hg(cont.Mercury_median, cont.Mercury_80th),
            effective_moisture_, cont)

\* the "SRF Classification" block
classification(hhv_, effective_moisture_, cont) ==
    classify(compute_ncv(hhv_, effective_moisture_), effective_moisture_, cont)

\* script_end with the classification fed the energy of the batch, in GJ,
\* for the heating value
script_end_by_energy(w, sel, shred_type_, c) ==
    [input_mass |-> w.input_mass, composition |-> w.composition,
     contaminants |-> w.contaminants, initial_moisture |-> w.initial_moisture,
     secondary |-> w.secondary, shred_type |-> shred_type_,
     drying_method_1 |-> sel.drying_method_1,
     drying_method_2 |-> sel.drying_method_2,
     final_moisture |-> sel.final_moisture,
     calc |-> c,
     class |-> classification(RDiv(c.total_energy, R(1000, 1)), c.effective_moisture,
                              w.contaminants),
     co2_metric |-> IF c.calc_error THEN Unbound
                    ELSE results_metric(c.coal_eq, c.srf_carbon_emissions,
                                        c.coal_carbon_emissions)]

\* the names one run leaves: w from the widgets, sel from the select boxes,
\* c from the calculations
script_end(w, sel, shred_type_, c) ==
    [input_mass |-> w.input_mass, composition |-> w.composition,
     contaminants |-> w.contaminants, initial_moisture |-> w.initial_moisture,
     secondary |-> w.secondary, shred_type |-> shred_type_,
     drying_method_1 |-> sel.drying_method_1,
     drying_method_2 |-> sel.drying_method_2,
     final_moisture |-> sel.final_moisture,
     calc |-> c,
     class |-> classification(c.hhv, c.effective_moisture, w.contaminants),
     co2_metric |-> IF c.calc_error THEN Unbound
                    ELSE results_metric(c.coal_eq, c.srf_carbon_emissions,
                                        c.coal_carbon_emissions)]

script_calculations(w, sel, shred_type_) ==
    script_end(w, sel, shred_type_,
               calculations(w.input_mass, w.composition, w.initial_moisture,
                            sel.drying_method_1, sel.drying_method_2, w.secondary,
                            shred_type_))

\* the particle size radio: drawn with secondary shredding, first option by default
shred_radio(secondary, stored) ==
    IF secondary THEN (IF stored \in ShredTypes THEN stored ELSE "Fine (<50mm)")
    ELSE None

\* one run of the script: the widgets return w, the blocks run top to bottom
Script(w) ==
    script_calculations(w,
                        drying_selection(w.initial_moisture, w.stored_1, w.stored_2),
                        shred_radio(w.secondary, w.shred_type))

----------------------------------------------------------------------------
(* The state: st.session_state, the values the widgets hold, and the names  *)
(* the last run of the script bound.                                        *)

VARIABLES
    composition,            \* st.session_state.composition
    contaminants,           \* st.session_state.contaminants
    session_co2_avoided,    \* st.session_state.co2_avoided
    input_mass, initial_moisture,
    secondary_shredding,    \* "Secondary Shredding" in process_flow
    shred_type,
    drying_method_1, drying_method_2, final_moisture,
    calc_error,
    stages,                 \* the stages the mass balance applied, in order
    output_mass, effective_moisture, hhv, total_energy, coal_eq, oil_eq,
    srf_carbon_emissions, coal_carbon_emissions, co2_avoided,
    co2_metric,
    ncv, ncv_class, cl_class, hg_class, srf_class,
    warnings,
    report                  \* what create_pdf_report wrote in this run, or None

vars ==
    <<composition, contaminants, session_co2_avoided, input_mass, initial_moisture,
      secondary_shredding, shred_type, drying_method_1, drying_method_2,
      final_moisture, calc_error, stages, output_mass, effective_moisture, hhv,
      total_energy, coal_eq, oil_eq, srf_carbon_emissions, coal_carbon_emissions,
      co2_avoided, co2_metric, ncv, ncv_class, cl_class, hg_class, srf_class,
      warnings, report>>

\* the values the widgets hold now
Widgets ==
    [input_mass |-> input_mass, composition |-> composition,
     contaminants |-> contaminants, initial_moisture |-> initial_moisture,
     secondary |-> secondary_shredding, shred_type |-> shred_type,
     stored_1 |-> drying_method_1, stored_2 |-> drying_method_2]

\* Bind with st.session_state.co2_avoided left as the run found it
Bind_co2_kept(r, old_co2, rep) ==
    /\ composition' = r.composition
    /\ contaminants' = r.contaminants
    /\ session_co2_avoided' = old_co2
    /\ input_mass' = r.input_mass
    /\ initial_moisture' = r.initial_moisture
    /\ secondary_shredding' = r.secondary
    /\ shred_type' = r.shred_type
    /\ drying_method_1' = r.drying_method_1
    /\ drying_method_2' = r.drying_method_2
    /\ final_moisture' = r.final_moisture
    /\ calc_error' = r.calc.calc_error
    /\ stages' = r.calc.stages
    /\ output_mass' = r.calc.output_mass
    /\ effective_moisture' = r.calc.effective_moisture
    /\ hhv' = r.calc.hhv
    /\ total_energy' = r.calc.total_energy
    /\ coal_eq' = r.calc.coal_eq
    /\ oil_eq' = r.calc.oil_eq
    /\ srf_carbon_emissions' = r.calc.srf_carbon_emissions
    /\ coal_carbon_emissions' = r.calc.coal_carbon_emissions
    /\ co2_avoided' = r.calc.co2_avoided
    /\ co2_metric' = r.co2_metric
    /\ ncv' = r.class.ncv
    /\ ncv_class' = r.class.ncv_class
    /\ cl_class' = r.class.cl_class
    /\ hg_class' = r.class.hg_class
    /\ srf_class' = r.class.srf_class
    /\ warnings' = r.class.warnings
    /\ report' = rep

\* the state a run r of the script leaves, with the session's co2_avoided before it
Bind(r, old_co2, rep) ==
    /\ composition' = r.composition
    /\ contaminants' = r.contaminants
    /\ session_co2_avoided' = IF r.calc.calc_error THEN old_co2 ELSE r.calc.co2_avoided
    /\ input_mass' = r.input_mass
    /\ initial_moisture' = r.initial_moisture
    /\ secondary_shredding' = r.secondary
    /\ shred_type' = r.shred_type
    /\ drying_method_1' = r.drying_method_1
    /\ drying_method_2' = r.drying_method_2
    /\ final_moisture' = r.final_moisture
    /\ calc_error' = r.calc.calc_error
    /\ stages' = r.calc.stages
    /\ output_mass' = r.calc.output_mass
    /\ effective_moisture' = r.calc.effective_moisture
    /\ hhv' = r.calc.hhv
    /\ total_energy' = r.calc.total_energy
    /\ coal_eq' = r.calc.coal_eq
    /\ oil_eq' = r.calc.oil_eq
    /\ srf_carbon_emissions' = r.calc.srf_carbon_emissions
    /\ coal_carbon_emissions' = r.calc.coal_carbon_emissions
    /\ co2_avoided' = r.calc.co2_avoided
    /\ co2_metric' = r.co2_metric
    /\ ncv' = r.class.ncv
    /\ ncv_class' = r.class.ncv_class
    /\ cl_class' = r.class.cl_class
    /\ hg_class' = r.class.hg_class
    /\ srf_class' = r.class.srf_class
    /\ warnings' = r.class.warnings
    /\ report' = rep

\* the first run: every widget returns its default
DefaultWidgets ==
    [input_mass |-> Zero, composition |-> InitialComposition,
     contaminants |-> InitialContaminants,
     initial_moisture |-> default_moisture(InitialComposition),
     secondary |-> FALSE, shred_type |-> None, stored_1 |-> None, stored_2 |-> None]

\* the state a first run r leaves: no report has been written
FirstRun(r) ==
    /\ composition = r.composition
    /\ contaminants = r.contaminants
    /\ session_co2_avoided = r.calc.co2_avoided
    /\ input_mass = r.input_mass
    /\ initial_moisture = r.initial_moisture
    /\ secondary_shredding = r.secondary
    /\ shred_type = r.shred_type
    /\ drying_method_1 = r.drying_method_1
    /\ drying_method_2 = r.drying_method_2
    /\ final_moisture = r.final_moisture
    /\ calc_error = r.calc.calc_error
    /\ stages = r.calc.stages
    /\ output_mass = r.calc.output_mass
    /\ effective_moisture = r.calc.effective_moisture
    /\ hhv = r.calc.hhv
    /\ total_energy = r.calc.total_energy
    /\ coal_eq = r.calc.coal_eq
    /\ oil_eq = r.calc.oil_eq
    /\ srf_carbon_emissions = r.calc.srf_carbon_emissions
    /\ coal_carbon_emissions = r.calc.coal_carbon_emissions
    /\ co2_avoided = r.calc.co2_avoided
    /\ co2_metric = r.co2_metric
    /\ ncv = r.class.ncv
    /\ ncv_class = r.class.ncv_class
    /\ cl_class = r.class.cl_class
    /\ hg_class = r.class.hg_class
    /\ srf_class = r.class.srf_class
    /\ warnings = r.class.warnings
    /\ report = Unbound

Init == FirstRun(Script(DefaultWidgets))

\* create_pdf_report(), sections 3 to 5, from the names the run bound
create_pdf_report(r, session_co2) ==
    IF r.calc.calc_error THEN Raised("NameError")
    ELSE LET c == r.calc
             k == r.class
             mass_loss == RSub(r.input_mass, c.output_mass)
         IN  [mass_loss |-> mass_loss,
              mass_loss_percent |->
                  IF RLt(Zero, r.input_mass)
                  THEN RMul(RDiv(mass_loss, r.input_mass), Hundred) ELSE Zero,
              co2_red |-> session_co2,
              co2_percent |->
                  IF RLt(Zero, c.coal_carbon_emissions)
                  THEN co2_percent_of(c.srf_carbon_emissions, c.coal_carbon_emissions)
                  ELSE Zero,
              warnings |->
                  (IF RLt(R(20, 1), c.effective_moisture)
                   THEN {"High moisture content"} ELSE {})
                  \cup (IF k.cl_class = 5 THEN {"High chlorine content"} ELSE {})
                  \cup (IF k.hg_class >= 4 THEN {"High mercury content"} ELSE {})
                  \cup (IF k.srf_class >= 4 THEN {"Low SRF classification"} ELSE {})]

\* a rerun in which no button is pressed
Rerun(w) == Bind(Script(w), session_co2_avoided, Unbound)

\* the moisture slider after the composition became comp: it keeps its value
\* while its bounds and default are the same, and is drawn anew otherwise
slider_after(comp) ==
    IF /\ REq(min_moisture(comp), min_moisture(composition))
       /\ REq(default_moisture(comp), default_moisture(composition))
    THEN initial_moisture
    ELSE default_moisture(comp)

----------------------------------------------------------------------------
(* The user's operations. Each one ends with a complete run of the script. *)

EditMass(v) ==
    /\ v # input_mass
    /\ Rerun([Widgets EXCEPT !.input_mass = v])

EditComposition(c) ==
    /\ c # composition
    /\ Rerun([Widgets EXCEPT !.composition = c, !.initial_moisture = slider_after(c)])

EditMoisture(m) ==
    /\ m # initial_moisture
    /\ RLeq(min_moisture(composition), m)
    /\ RLeq(m, R(85, 1))
    /\ Rerun([Widgets EXCEPT !.initial_moisture = m])

EditChlorine(v) ==
    /\ v # contaminants.Chlorine
    /\ Rerun([Widgets EXCEPT !.contaminants.Chlorine = v])

EditMercuryMedian(v) ==
    /\ v # contaminants.Mercury_median
    /\ Rerun([Widgets EXCEPT !.contaminants.Mercury_median = v])

EditMercury80th(v) ==
    /\ v # contaminants.Mercury_80th
    /\ Rerun([Widgets EXCEPT !.contaminants.Mercury_80th = v])

ToggleSecondaryShredding ==
    Rerun([Widgets EXCEPT !.secondary = ~secondary_shredding])

SelectShredType(t) ==
    /\ secondary_shredding
    /\ t # shred_type
    /\ Rerun([Widgets EXCEPT !.shred_type = t])

SelectDrying1(m) ==
    /\ ~RLt(initial_moisture, R(20, 1))
    /\ m \in Range(applicable_methods(initial_moisture))
    /\ m # drying_method_1
    /\ Rerun([Widgets EXCEPT !.stored_1 = m])

SelectDrying2(m) ==
    /\ drying_method_1 # None
    /\ m \in Range(applicable_methods(DRYING_METHODS[drying_method_1].output_moisture))
    /\ m # drying_method_2
    /\ Rerun([Widgets EXCEPT !.stored_2 = m])

\* |x - 100| > 0.01
off_hundred(x) ==
    RLt(R(1, 100), RSub(x, Hundred)) \/ RLt(R(1, 100), RSub(Hundred, x))

NormalizeTo(c) ==
    Rerun([Widgets EXCEPT !.composition = c, !.initial_moisture = slider_after(c)])

\* the "Normalize to 100%" button, shown while the total is neither 0 nor 100:
\* normalize_composition(), st.rerun()
Normalize ==
    /\ off_hundred(Total(composition))
    /\ ~RIsZero(Total(composition))
    /\ NormalizeTo(normalize_composition(composition))

ReportOf(r) ==
    Bind(r, session_co2_avoided,
         create_pdf_report(r, IF r.calc.calc_error THEN session_co2_avoided
                              ELSE r.calc.co2_avoided))

\* the "Generate Report" button: the script runs, then the report is written
GenerateReport == ReportOf(Script(Widgets))

\* Reset with the first loop only: the contaminants keep their values
Reset_composition_only ==
    /\ \/ composition # InitialComposition
       \/ contaminants # InitialContaminants
    /\ Rerun([Widgets EXCEPT !.composition = InitialComposition,
                             !.initial_moisture = slider_after(InitialComposition)])

\* the "Reset All Inputs" button: the script runs, both loops run, st.rerun()
Reset ==
    /\ \/ composition # InitialComposition
       \/ contaminants # InitialContaminants
    /\ Rerun([Widgets EXCEPT !.composition = InitialComposition,
                             !.contaminants = InitialContaminants,
                             !.initial_moisture = slider_after(InitialComposition)])

----------------------------------------------------------------------------
(* The "Calculations" and later blocks as a function of the names they    *)
(* read: drying_method_1 and drying_method_2 are given, whatever the      *)
(* select boxes of the "Processing Section" would offer.                  *)

Calculate(w, dm1, dm2) ==
    Bind(script_calculations(w, selection(w.initial_moisture, dm1, dm2),
                             shred_radio(w.secondary, w.shred_type)),
         session_co2_avoided, Unbound)

CalculateMass(v) ==
    /\ v # input_mass
    /\ Calculate([Widgets EXCEPT !.input_mass = v], drying_method_1, drying_method_2)

CalculateMoisture(m) ==
    /\ m # initial_moisture
    /\ Calculate([Widgets EXCEPT !.initial_moisture = m], drying_method_1, drying_method_2)

CalculateDrying1(dm) ==
    /\ dm # drying_method_1
    /\ Calculate(Widgets, dm, drying_method_2)

CalculateDrying2(dm) ==
    /\ dm # drying_method_2
    /\ Calculate(Widgets, drying_method_1, dm)

CalculateShredding(t) ==
    /\ t # shred_type
    /\ Calculate([Widgets EXCEPT !.secondary = (t # None), !.shred_type = t],
                 drying_method_1, drying_method_2)

----------------------------------------------------------------------------
(* The inputs the model explores.                                          *)

MaxMassSteps == 1

\* Total Waste Mass (kg)
InputMasses == {R(1000 * k, 1) : k \in 0..MaxMassSteps}

\* Initial Moisture Content (%), in tenths: the ends of every catalog range,
\* the 20 % rule and the ends of the slider
MoistureTenths ==
    {0, 169, 170, 199, 200, 249, 250, 300, 350, 351, 450, 451, 550, 551, 650, 651, 850}
Moistures == {R(t, 10) : t \in MoistureTenths}

\* a composition, in hundredths of a percent
Comp(plastic, paper, textiles, organic, inert) ==
    [k \in Categories |->
        CASE k = "Plastic"           -> R(plastic, 100)
          [] k = "Paper & Cardboard" -> R(paper, 100)
          [] k = "Textiles"          -> R(textiles, 100)
          [] k = "Organic Waste"     -> R(organic, 100)
          [] k = "Inert Materials (wood, glass, diapers,...)"   -> R(inert, 100)
          [] OTHER                   -> Zero]

Scenario == Comp(4000, 3000, 1000, 2000, 0)     \* sums to 100, hhv 23.52
LowGrade == Comp(0, 0, 0, 6000, 10000)          \* sums to 160, hhv 7.28
Compost  == Comp(0, 0, 0, 5000, 0)              \* sums to 50, hhv 5.65

\* plastic alone, at the percentages that put 0.95 * hhv on either side of
\* 25, 20, 15 and 10 MJ/kg
PlasticHundredths == {7210, 7208, 5768, 5766, 4326, 4324, 2884, 2882}
PlasticOnly == {Comp(p, 0, 0, 0, 0) : p \in PlasticHundredths}

\* the mass balance: every stage, every drying method, every particle size
Next ==
    \/ \E v \in InputMasses : EditMass(v)
    \/ \E c \in {InitialComposition, Scenario} : EditComposition(c)
    \/ \E m \in Moistures : EditMoisture(m)
    \/ ToggleSecondaryShredding
    \/ \E t \in ShredTypes : SelectShredType(t)
    \/ \E m \in Methods : SelectDrying1(m)
    \/ \E m \in Methods : SelectDrying2(m)

Spec == Init /\ [][Next]_vars

\* the energy and CO2 figures, on screen and in the report
NextEnergy ==
    \/ \E v \in InputMasses : EditMass(v)
    \/ \E c \in {InitialComposition, Scenario, LowGrade, Compost} : EditComposition(c)
    \/ \E m \in {R(0, 1), R(30, 1), R(60, 1), R(70, 1)} : EditMoisture(m)
    \/ ToggleSecondaryShredding
    \/ \E m \in Methods : SelectDrying1(m)
    \/ \E m \in Methods : SelectDrying2(m)
    \/ GenerateReport

SpecEnergy == Init /\ [][NextEnergy]_vars

\* Chlorine (%), in hundredths: each class bound and the next value above it
ChlorineHundredths == {20, 21, 60, 61, 100, 101, 150, 151, 300, 350}
Chlorines == {R(h, 100) : h \in ChlorineHundredths}

\* the classifier: the NCV classes, the chlorine classes, three mercury classes
NextClassifier ==
    \/ \E c \in PlasticOnly \cup {InitialComposition, Scenario} : EditComposition(c)
    \/ \E m \in {R(0, 1), R(199, 10), R(30, 1), R(70, 1)} : EditMoisture(m)
    \/ \E v \in Chlorines : EditChlorine(v)
    \/ \E v \in {Zero, R(5, 100), R(60, 100)} : EditMercuryMedian(v)

SpecClassifier == Init /\ [][NextClassifier]_vars

\* Mercury (mg/MJ), in hundredths: each bound of either column and values
\* between and above them
MedianHundredths == {1, 2, 3, 8, 15, 50, 51}
Percentile80Hundredths == {3, 4, 5, 6, 16, 30, 100, 101}

\* the mercury classes
NextMercury ==
    \/ \E h \in MedianHundredths : EditMercuryMedian(R(h, 100))
    \/ \E h \in Percentile80Hundredths : EditMercury80th(R(h, 100))
    \/ \E v \in {Zero, R(35, 10)} : EditChlorine(v)

SpecMercury == Init /\ [][NextMercury]_vars

----------------------------------------------------------------------------
(* Properties.                                                             *)

\* C1: in every run the pipeline's output_mass is at most input_mass, whatever
\* the moisture, the drying methods in effect and the shredding choice.
C1_PipelineMonotone == RLeq(output_mass, input_mass)

\* a run with a positive mass, two drying stages and secondary shredding
C1_Witness ==
    /\ RLt(Zero, input_mass)
    /\ drying_method_1 # None /\ drying_method_2 # None
    /\ secondary_shredding
    /\ Len(stages) = 6
    /\ RLt(output_mass, input_mass)

\* C7: below 20 % initial moisture no drying method is in effect, no drying
\* stage is applied to the mass and effective_moisture is initial_moisture,
\* also between 17 % and 20 % where Rotary Drum's range applies.
C7_NoDryingBelow20 ==
    RLt(initial_moisture, R(20, 1)) =>
        /\ drying_method_1 = None
        /\ drying_method_2 = None
        /\ Range(stages) \cap Methods = {}
        /\ REq(effective_moisture, initial_moisture)
        /\ REq(final_moisture, initial_moisture)
        /\ REq(output_mass,
               RMul(RMul(RMul(input_mass, R(95, 100)), R(97, 100)),
                    IF secondary_shredding
                    THEN RMul(RSub(One, shred_loss(shred_type)), R(97, 100))
                    ELSE One))

\* a run at 19.9 %, inside Rotary Drum's range, with a positive mass
C7_Witness ==
    /\ REq(initial_moisture, R(199, 10))
    /\ RLt(Zero, input_mass)
    /\ REq(effective_moisture, R(199, 10))
    /\ drying_method_1 = None

\* C2: after classification each of ncv_class, cl_class, hg_class and srf_class
\* is an integer from 1 to 5 and srf_class is the largest of the other three.
C2_SrfClassIsMax ==
    /\ {ncv_class, cl_class, hg_class, srf_class} \subseteq 1..5
    /\ srf_class \in {ncv_class, cl_class, hg_class}
    /\ \A c \in {ncv_class, cl_class, hg_class} : c <= srf_class

\* a run whose worst class is the mercury class alone
C2_Witness ==
    /\ hg_class = 5 /\ ncv_class < 5 /\ cl_class < 5
    /\ srf_class = 5

\* C3: the NCV class has inclusive lower bounds: ncv >= 25 is class 1,
\* 20 <= ncv < 25 class 2, 15 <= ncv < 20 class 3, 10 <= ncv < 15 class 4 and
\* ncv < 10 class 5, so that 25.00 is class 1 and 24.99 is class 2.
C3_NcvClassBounds ==
    /\ ncv_class = 1 <=> RLeq(R(25, 1), ncv)
    /\ ncv_class = 2 <=> RLeq(R(20, 1), ncv) /\ RLt(ncv, R(25, 1))
    /\ ncv_class = 3 <=> RLeq(R(15, 1), ncv) /\ RLt(ncv, R(20, 1))
    /\ ncv_class = 4 <=> RLeq(R(10, 1), ncv) /\ RLt(ncv, R(15, 1))
    /\ ncv_class = 5 <=> RLt(ncv, R(10, 1))

\* a run with ncv = 24.99, one hundredth below the class 1 bound
C3_Witness == REq(ncv, R(2499, 100)) /\ ncv_class = 2

\* C4: the chlorine class has inclusive upper bounds 0.2, 0.6, 1.0, 1.5 and
\* 3.0 for the classes 1 to 5; a value above 3.0 is class 5 as well, and the
\* out-of-range chlorine warning is raised exactly when the value exceeds 3.0.
C4_ChlorineClass ==
    LET cl == contaminants.Chlorine
    IN  /\ cl_class = 1 <=> RLeq(cl, R(2, 10))
        /\ cl_class = 2 <=> RLt(R(2, 10), cl) /\ RLeq(cl, R(6, 10))
        /\ cl_class = 3 <=> RLt(R(6, 10), cl) /\ RLeq(cl, R(10, 10))
        /\ cl_class = 4 <=> RLt(R(10, 10), cl) /\ RLeq(cl, R(15, 10))
        /\ cl_class = 5 <=> RLt(R(15, 10), cl)
        /\ "Chlorine content exceeds 3.0%" \in warnings <=> RLt(R(30, 10), cl)
        /\ ~calc_error

\* a run with 3.5 % chlorine: class 5, with the warning
C4_Witness ==
    /\ REq(contaminants.Chlorine, R(35, 10))
    /\ cl_class = 5
    /\ "Chlorine content exceeds 3.0%" \in warnings

\* the bound pairs of the mercury classes 1 to 5, in hundredths of a mg/MJ
HgBoundPairs == <<<<2, 4>>, <<3, 6>>, <<8, 16>>, <<15, 30>>, <<50, 100>>>>

\* the tiers whose two bounds the mercury values of this run both meet
HgTiersMet ==
    {i \in 1..5 : /\ RLeq(contaminants.Mercury_median, R(HgBoundPairs[i][1], 100))
                  /\ RLeq(contaminants.Mercury_80th, R(HgBoundPairs[i][2], 100))}

\* C5: the mercury class is the first tier, in ascending order, whose two
\* bounds are both met; a tier of which one bound only is met is not given.
C5_MercuryFirstTier ==
    IF HgTiersMet = {} THEN hg_class = 5
    ELSE /\ hg_class \in HgTiersMet
         /\ \A i \in HgTiersMet : hg_class <= i

\* a run with median 0.01 and 80th percentile 0.05: the median meets the
\* class 1 bound, the percentile does not, and the class is 2
C5_Witness ==
    /\ REq(contaminants.Mercury_median, R(1, 100))
    /\ REq(contaminants.Mercury_80th, R(5, 100))
    /\ hg_class = 2

\* C6 as stated: the out-of-range mercury warning is raised exactly when the
\* median exceeds 0.50 and the 80th percentile exceeds 1.00.
C6_WarningWhenBothExceed ==
    "Mercury values exceed Class 5 thresholds" \in warnings
        <=> /\ RLt(R(50, 100), contaminants.Mercury_median)
            /\ RLt(R(100, 100), contaminants.Mercury_80th)

\* C6, amended: the out-of-range mercury warning is raised exactly when the
\* median exceeds 0.50 or the 80th percentile exceeds 1.00; hg_class is then 5,
\* and no mercury value makes the run fail.
C6_WarningWhenEitherExceeds ==
    /\ "Mercury values exceed Class 5 thresholds" \in warnings
           <=> \/ RLt(R(50, 100), contaminants.Mercury_median)
               \/ RLt(R(100, 100), contaminants.Mercury_80th)
    /\ "Mercury values exceed Class 5 thresholds" \in warnings => hg_class = 5
    /\ hg_class \in 1..5
    /\ ~calc_error

\* a run with median 0.51 and 80th percentile 0.30: one value beyond its
\* class 5 bound, the other within
C6_Witness ==
    /\ REq(contaminants.Mercury_median, R(51, 100))
    /\ REq(contaminants.Mercury_80th, R(30, 100))
    /\ hg_class = 5
    /\ "Mercury values exceed Class 5 thresholds" \in warnings

\* (hhv*(1 - m/100) - 2.443*(m/100)) * 0.95 at m = effective_moisture, as
\* (hhv*(100 - m) - 2.443*m) * 19 / 2000
NcvUnrounded ==
    RDiv(RMul(RSub(RMul(hhv, RSub(Hundred, effective_moisture)),
                   RMul(R(2443, 1000), effective_moisture)),
              R(19, 1)),
         R(2000, 1))

\* x is a whole number of hundredths
IsHundredths(x) ==
    RIsZero(x) \/ BigCmp(BigMul(BigFromNat(BigQuot(BigMulSmall(x.num, 100), x.den)), x.den),
                         BigMulSmall(x.num, 100)) = 0

\* C8: ncv is the unrounded value at effective_moisture rounded to two
\* decimals (a whole number of hundredths within 0.005 of it), a negative
\* result being replaced by 0: ncv >= 0 in every run, and ncv = 0 whenever
\* hhv*(1 - m/100) <= 2.443*(m/100).
C8_NcvFormula ==
    /\ RLeq(Zero, ncv)
    /\ IsHundredths(ncv)
    /\ RLeq(Zero, NcvUnrounded) =>
           /\ RLeq(RSub(ncv, NcvUnrounded), R(5, 1000))
           /\ RLeq(RSub(NcvUnrounded, ncv), R(5, 1000))
    /\ RLeq(RMul(hhv, RSub(One, RDiv(effective_moisture, Hundred))),
            RMul(R(2443, 1000), RDiv(effective_moisture, Hundred))) => RIsZero(ncv)

\* a run in which a drying stage lowered the moisture and ncv is positive
C8_Witness ==
    /\ RLt(effective_moisture, initial_moisture)
    /\ RLt(Zero, hhv)
    /\ RLt(Zero, ncv)


\* C9: degenerate input is absorbed without failure and yields zero outputs:
\* when input_mass is 0 or every composition entry is 0, the calculation raises
\* no exception and total_energy, coal_eq, oil_eq, co2_avoided and the CO2
\* avoided percentage are all 0 (output_mass is 0 when input_mass is 0, hhv is
\* 0 when the composition total is 0). The code breaks it: with a positive mass
\* and an all-zero composition co2_avoided is -srf_carbon_emissions.
C9_DegenerateYieldsZero ==
    (RIsZero(input_mass) \/ RIsZero(Total(composition))) =>
        /\ ~calc_error
        /\ RIsZero(total_energy)
        /\ RIsZero(coal_eq)
        /\ RIsZero(oil_eq)
        /\ RIsZero(co2_avoided)
        /\ co2_metric = Unbound
        /\ report # Unbound => report # Raised("NameError") /\ RIsZero(report.co2_percent)
        /\ RIsZero(input_mass) => RIsZero(output_mass)
        /\ RIsZero(Total(composition)) => RIsZero(hhv)

\* a positive mass of all-zero composition: the figure on screen is negative
C9_Witness ==
    /\ RLt(Zero, input_mass)
    /\ RIsZero(Total(composition))
    /\ ~calc_error
    /\ RIsZero(total_energy)
    /\ RLt(co2_avoided, Zero)

\* C10: the CO2-avoided percentage is 100*(1 - srf_carbon_emissions /
\* coal_carbon_emissions) when coal_carbon_emissions > 0 and 0 when it is <= 0;
\* no run divides by a zero coal_carbon_emissions, in the results panel or in
\* the report. (p = 100*(1 - s/c) is stated as p*c = 100*(c - s).)
C10_Co2PercentGuarded ==
    /\ co2_metric # Raised("ZeroDivisionError")
    /\ co2_metric # Unbound =>
           /\ RLt(Zero, coal_carbon_emissions)
           /\ REq(RMul(co2_metric, coal_carbon_emissions),
                  RMul(Hundred, RSub(coal_carbon_emissions, srf_carbon_emissions)))
    /\ (~calc_error /\ RLt(Zero, coal_carbon_emissions)) => co2_metric # Unbound
    /\ report # Unbound =>
           /\ report # Raised("NameError")
           /\ report.co2_percent # Raised("ZeroDivisionError")
           /\ IF RLt(Zero, coal_carbon_emissions)
              THEN REq(RMul(report.co2_percent, coal_carbon_emissions),
                       RMul(Hundred,
                            RSub(coal_carbon_emissions, srf_carbon_emissions)))
              ELSE RIsZero(report.co2_percent)

\* a report written for a positive mass whose coal equivalent is zero
C10_Witness ==
    /\ report # Unbound
    /\ RLt(Zero, output_mass)
    /\ RIsZero(coal_carbon_emissions)
    /\ co2_metric = Unbound
    /\ RIsZero(report.co2_percent)


\* the warnings, on screen and in the report: moisture on either side of 20,
\* chlorine and mercury classes below 4, 4 and 5
NextWarnings ==
    \/ \E c \in {InitialComposition, Scenario} : EditComposition(c)
    \/ \E m \in {R(0, 1), R(30, 1), R(70, 1)} : EditMoisture(m)
    \/ \E v \in {Zero, R(150, 100), R(200, 100)} : EditChlorine(v)
    \/ \E v \in {Zero, R(5, 100), R(10, 100), R(20, 100)} : EditMercuryMedian(v)
    \/ GenerateReport

SpecWarnings == Init /\ [][NextWarnings]_vars

\* C11: the advisory warnings are raised exactly when effective_moisture > 20
\* (moisture), cl_class = 5 (chlorine), hg_class >= 4 (mercury) and
\* srf_class >= 4 (low class); they never abort the run, and the report's
\* warnings section uses the same four conditions as the screen.
C11_WarningConditions ==
    /\ ~calc_error
    /\ "High Moisture Content" \in warnings <=> RLt(R(20, 1), effective_moisture)
    /\ "High Chlorine Content" \in warnings <=> cl_class = 5
    /\ "High Mercury Content" \in warnings <=> hg_class >= 4
    /\ "Class 4/5 SRF" \in warnings <=> srf_class >= 4
    /\ report # Unbound =>
           /\ report # Raised("NameError")
           /\ "High moisture content" \in report.warnings
                  <=> "High Moisture Content" \in warnings
           /\ "High chlorine content" \in report.warnings
                  <=> "High Chlorine Content" \in warnings
           /\ "High mercury content" \in report.warnings
                  <=> "High Mercury Content" \in warnings
           /\ "Low SRF classification" \in report.warnings
                  <=> "Class 4/5 SRF" \in warnings

\* a report of a class 4 run by mercury alone: moisture and chlorine are fine,
\* the mercury and low-class warnings are on screen and in the report
C11_Witness ==
    /\ report # Unbound
    /\ hg_class = 4 /\ srf_class = 4 /\ cl_class < 5
    /\ ~RLt(R(20, 1), effective_moisture)
    /\ warnings = {"High Mercury Content", "Class 4/5 SRF"}
    /\ report.warnings = {"High mercury content", "Low SRF classification"}


Thirds == Comp(1000, 1000, 1000, 0, 0)          \* sums to 30
Traces == Comp(1, 0, 0, 2, 0)                   \* sums to 0.03
Excess == Comp(5000, 5000, 0, 0, 2)             \* sums to 100.02
Even == [k \in Categories |-> R(10, 1)]         \* sums to 70, hhv 9.30

\* normalization: totals of 0, 0.03, 30, 50, 70, 100, 100.02 and 160
NextNormalize ==
    \/ \E c \in {InitialComposition, Scenario, LowGrade, Compost, Thirds, Traces, Excess, Even} :
           EditComposition(c)
    \/ Normalize
    \/ \E v \in InputMasses : EditMass(v)
    \/ \E m \in {R(30, 1), R(70, 1)} : EditMoisture(m)
    \/ ToggleSecondaryShredding

SpecNormalize == Init /\ [][NextNormalize]_vars

\* |Total(comp) - 100| <= 0.01
SumsToHundred(comp) ==
    /\ RLeq(RSub(Total(comp), Hundred), R(1, 100))
    /\ RLeq(RSub(Hundred, Total(comp)), R(1, 100))

\* comp[j] : comp[k] is the same in both compositions, for every j and k
SameRatios(before, after) ==
    \A j, k \in Categories :
        REq(RMul(after[j], before[k]), RMul(after[k], before[j]))

\* C12: normalize_composition on a composition of positive total leaves
\* values that sum to 100 (within 0.01) and the ratio between any two
\* categories as it was; a composition of total 0 is left unchanged.
C12_NormalizeTo100 ==
    IF RIsZero(Total(composition))
    THEN normalize_composition(composition) = composition
    ELSE /\ SumsToHundred(normalize_composition(composition))
         /\ SameRatios(composition, normalize_composition(composition))
         /\ \A k \in Categories : RLeq(Zero, normalize_composition(composition)[k])

\* the state the "Normalize to 100%" button leaves from three entries of 10:
\* three entries of 100/3
C12_Witness ==
    /\ REq(composition["Plastic"], R(100, 3))
    /\ REq(composition["Paper & Cardboard"], R(100, 3))
    /\ REq(composition["Textiles"], R(100, 3))
    /\ REq(Total(composition), Hundred)

\* C13: normalize_composition is idempotent: called twice in succession it
\* leaves the composition that one call leaves.
C13_NormalizeIdempotent ==
    \A k \in Categories :
        REq(normalize_composition(normalize_composition(composition))[k],
            normalize_composition(composition)[k])

\* a composition of total 160, which the first call changes
C13_Witness ==
    /\ REq(Total(composition), R(160, 1))
    /\ REq(normalize_composition(composition)["Organic Waste"], R(375, 10))
    /\ REq(normalize_composition(normalize_composition(composition))["Organic Waste"],
           R(375, 10))


\* the composition with every entry multiplied by factor
Scaled(comp, factor) == [k \in Categories |-> RMul(factor, comp[k])]

\* the heating value written out: MJ/kg per category, weighted by percent
WeightedHeatingValue ==
    RDiv(RAdd(RAdd(RAdd(RMul(R(365, 10), composition["Plastic"]),
                        RMul(R(158, 10), composition["Paper & Cardboard"])),
                   RAdd(RMul(R(192, 10), composition["Textiles"]),
                        RMul(R(113, 10), composition["Organic Waste"]))),
              RAdd(RMul(R(5, 10),
                        composition["Inert Materials (wood, glass, diapers,...)"]),
                   RMul(R(97, 10), composition["Other Materials"]))),
         Hundred)

\* C14: hhv is the sum over the categories of composition[k]*HHV_VALUES[k],
\* divided by 100, whatever the composition total; scaling every entry by a
\* factor scales hhv by it, and hhv is 0 for an all-zero composition.
C14_HhvLinear ==
    /\ REq(hhv, WeightedHeatingValue)
    /\ \A f \in {Zero, R(1, 2), R(2, 1), R(3, 1)} :
           REq(compute_hhv(Scaled(composition, f)), RMul(f, hhv))
    /\ RIsZero(Total(composition)) => RIsZero(hhv)

\* a run on a composition of total 160: hhv is 7.28, no validation
C14_Witness ==
    /\ REq(Total(composition), R(160, 1))
    /\ REq(hhv, R(728, 100))
    /\ ~calc_error


\* the worked scenario: 1000 kg of the 40/30/10/20 composition at 30 %
\* moisture, Rotary Drum first, no secondary shredding
WorkedScenario ==
    /\ REq(input_mass, R(1000, 1))
    /\ composition = Scenario
    /\ REq(initial_moisture, R(30, 1))
    /\ drying_method_1 = "Rotary Drum"
    /\ ~secondary_shredding

\* 1000 * 0.95 * 0.97 * (0.70/0.90) * 0.88
WorkedOutputMass ==
    RMul(RMul(RMul(RMul(R(1000, 1), R(95, 100)), R(97, 100)),
              RDiv(R(70, 100), R(90, 100))),
         R(88, 100))

\* C15 as stated: in the worked scenario no second drying method is
\* applicable and the run ends with effective_moisture = 10, hhv = 24.08 and
\* output_mass = 1000 * 0.95 * 0.97 * (0.70/0.90) * 0.88.
C15_WorkedScenarioAsStated ==
    WorkedScenario =>
        /\ drying_method_2 = None
        /\ REq(effective_moisture, R(10, 1))
        /\ REq(hhv, R(2408, 100))
        /\ REq(output_mass, WorkedOutputMass)

\* C15, amended: in the worked scenario no second drying method is applicable
\* and the run ends with effective_moisture = 10, hhv = 23.52 (that is
\* (40*36.5 + 30*15.8 + 10*19.2 + 20*11.3)/100) and
\* output_mass = 1000 * 0.95 * 0.97 * (0.70/0.90) * 0.88.
C15_WorkedScenario ==
    WorkedScenario =>
        /\ drying_method_2 = None
        /\ applicable_methods(R(10, 1)) = <<>>
        /\ REq(effective_moisture, R(10, 1))
        /\ REq(hhv, R(2352, 100))
        /\ REq(output_mass, WorkedOutputMass)

\* a run of the worked scenario: three stages, Rotary Drum the last
C15_Witness ==
    /\ WorkedScenario
    /\ stages = <<"Presorting", "Primary Shredding", "Rotary Drum">>
    /\ ~calc_error


\* resetting: compositions and contaminants with several non-zero entries
NextReset ==
    \/ \E c \in {Scenario, Compost, Thirds} : EditComposition(c)
    \/ \E v \in {R(100, 100), R(350, 100)} : EditChlorine(v)
    \/ EditMercuryMedian(R(5, 100))
    \/ EditMercury80th(R(10, 100))
    \/ \E v \in InputMasses : EditMass(v)
    \/ \E m \in {R(30, 1), R(70, 1)} : EditMoisture(m)
    \/ Reset

SpecReset == Init /\ [][NextReset]_vars

\* every composition entry and every contaminant entry is 0
AllInputsZero ==
    /\ \A k \in Categories : RIsZero(composition[k])
    /\ RIsZero(contaminants.Chlorine)
    /\ RIsZero(contaminants.Mercury_median)
    /\ RIsZero(contaminants.Mercury_80th)

\* C16: Reset is all-or-nothing: the run that follows the "Reset All Inputs"
\* button starts from, and ends with, every composition entry and every
\* contaminant entry at 0; none keeps its previous non-zero value.
C16_ResetAllOrNothing == [][Reset => (AllInputsZero /\ RIsZero(hhv) /\ ~calc_error)']_vars

\* four composition entries and the three contaminants are non-zero: the
\* state from which the button resets all seven
C16_Witness ==
    /\ composition = Scenario
    /\ ~RIsZero(contaminants.Chlorine)
    /\ ~RIsZero(contaminants.Mercury_median)
    /\ ~RIsZero(contaminants.Mercury_80th)
    /\ RLt(Zero, input_mass)


\* the mass balance with any drying method at either stage, applicable or not
NextStages ==
    \/ \E v \in InputMasses : CalculateMass(v)
    \/ \E m \in {R(10, 1), R(30, 1), R(40, 1), R(60, 1)} : CalculateMoisture(m)
    \/ \E dm \in Methods \cup {None} : CalculateDrying1(dm)
    \/ \E dm \in Methods \cup {None} : CalculateDrying2(dm)
    \/ \E t \in {None, "Fine (<50mm)"} : CalculateShredding(t)

SpecStages == Init /\ [][NextStages]_vars

\* the first drying stage is applied: a method is given and its range
\* contains the initial moisture
Applied1 ==
    /\ drying_method_1 # None
    /\ RLeq(DRYING_METHODS[drying_method_1].applicable_moisture[1], initial_moisture)
    /\ RLeq(initial_moisture, DRYING_METHODS[drying_method_1].applicable_moisture[2])

\* the moisture the second drying stage meets
MoistureAfter1 ==
    IF Applied1 THEN DRYING_METHODS[drying_method_1].output_moisture
    ELSE initial_moisture

\* the second drying stage is applied
Applied2 ==
    /\ drying_method_2 # None
    /\ RLeq(DRYING_METHODS[drying_method_2].applicable_moisture[1], MoistureAfter1)
    /\ RLeq(MoistureAfter1, DRYING_METHODS[drying_method_2].applicable_moisture[2])

\* (1 - moisture/100) / (1 - output_moisture/100) * (1 - loss)
DryingFactor(moisture, method) ==
    RMul(RDiv(RSub(One, RDiv(moisture, Hundred)),
              RSub(One, RDiv(DRYING_METHODS[method].output_moisture, Hundred))),
         RSub(One, DRYING_METHODS[method].loss))

\* the mass that reaches the drying stages
MassBeforeDrying ==
    RMul(RMul(RMul(input_mass, R(95, 100)), R(97, 100)),
         IF secondary_shredding THEN RSub(One, shred_loss(shred_type)) ELSE One)

\* what the stages after the first drying stage multiply the mass by
FactorAfter1 ==
    RMul(IF Applied2 THEN DryingFactor(MoistureAfter1, drying_method_2) ELSE One,
         IF secondary_shredding THEN R(97, 100) ELSE One)

\* C17: a drying stage applied to (mass, moisture) leaves
\* mass * (1 - moisture/100) / (1 - output_moisture/100) * (1 - loss) and the
\* method's output_moisture; the divisor is never 0, every catalog entry
\* having output_moisture < 100.
C17_DryingStage ==
    /\ \A m \in Methods : RLt(DRYING_METHODS[m].output_moisture, Hundred)
    /\ ~calc_error
    /\ Applied1 =>
           /\ REq(output_mass,
                  RMul(RMul(MassBeforeDrying,
                            DryingFactor(initial_moisture, drying_method_1)),
                       FactorAfter1))
           /\ ~Applied2 =>
                  REq(effective_moisture, DRYING_METHODS[drying_method_1].output_moisture)
    /\ Applied2 =>
           REq(effective_moisture, DRYING_METHODS[drying_method_2].output_moisture)

\* Mechanical Press at 60 %, then Solar Tunnel at 40 %: two applied stages
C17_Witness ==
    /\ RLt(Zero, input_mass)
    /\ REq(initial_moisture, R(60, 1))
    /\ drying_method_1 = "Mechanical Press"
    /\ drying_method_2 = "Solar Tunnel"
    /\ REq(effective_moisture, R(20, 1))
    /\ Len(stages) = 4

\* the drying stages the report of the mass balance lists
DryingStagesRun == SelectSeq(stages, LAMBDA s : s \in Methods)

\* C18: a drying stage whose method's range does not contain the current
\* moisture is skipped silently: mass and moisture are as they were, no error
\* is raised, and the remaining stages still run.
C18_InapplicableStageSkipped ==
    /\ ~calc_error
    /\ (drying_method_1 # None /\ ~Applied1) =>
           /\ DryingStagesRun = IF Applied2 THEN <<drying_method_2>> ELSE <<>>
           /\ REq(output_mass, RMul(MassBeforeDrying, FactorAfter1))
           /\ ~Applied2 => REq(effective_moisture, initial_moisture)
           /\ secondary_shredding => stages[Len(stages)] = "Secondary Shredding"
    /\ (drying_method_2 # None /\ ~Applied2) =>
           /\ DryingStagesRun = IF Applied1 THEN <<drying_method_1>> ELSE <<>>
           /\ REq(effective_moisture, MoistureAfter1)
           /\ REq(output_mass,
                  RMul(RMul(MassBeforeDrying,
                            IF Applied1
                            THEN DryingFactor(initial_moisture, drying_method_1)
                            ELSE One),
                       IF secondary_shredding THEN R(97, 100) ELSE One))
           /\ secondary_shredding => stages[Len(stages)] = "Secondary Shredding"

\* Mechanical Press given at 30 %, outside its range, then Rotary Drum, with
\* secondary shredding: the first stage is skipped, the others run
C18_Witness ==
    /\ RLt(Zero, input_mass)
    /\ REq(initial_moisture, R(30, 1))
    /\ drying_method_1 = "Mechanical Press"
    /\ drying_method_2 = "Rotary Drum"
    /\ secondary_shredding
    /\ stages = <<"Presorting", "Primary Shredding", "Mechanical Separation",
                  "Rotary Drum", "Secondary Shredding">>
    /\ REq(effective_moisture, R(10, 1))


\* what the drying stages multiply the mass by
DryingFactors ==
    RMul(IF Applied1 THEN DryingFactor(initial_moisture, drying_method_1) ELSE One,
         IF Applied2 THEN DryingFactor(MoistureAfter1, drying_method_2) ELSE One)

\* the mass balance when Mechanical Separation multiplies the mass by factor
WithSeparation(factor) ==
    REq(output_mass,
        RMul(RMul(RMul(RMul(RMul(input_mass, R(95, 100)), R(97, 100)), factor),
                  DryingFactors),
             IF secondary_shredding THEN R(97, 100) ELSE One))

\* C19: Mechanical Separation multiplies the mass by (1 - shred_loss), with
\* shred_loss 0.05 / 0.017 / 0.008 for Fine / Medium / Rough, if and only if
\* secondary shredding is selected; not selected, the stage loses no mass, and
\* with no drying output_mass = input_mass * 0.95 * 0.97.
C19_MechanicalSeparation ==
    /\ ~calc_error
    /\ ("Mechanical Separation" \in Range(stages)) <=> secondary_shredding
    /\ (secondary_shredding /\ shred_type = "Fine (<50mm)") => WithSeparation(R(950, 1000))
    /\ (secondary_shredding /\ shred_type = "Medium (50-100mm)") => WithSeparation(R(983, 1000))
    /\ (secondary_shredding /\ shred_type = "Rough (>100mm)") => WithSeparation(R(992, 1000))
    /\ ~secondary_shredding => WithSeparation(One)
    /\ (~secondary_shredding /\ DryingStagesRun = <<>>) =>
           REq(output_mass, RMul(input_mass, R(9215, 10000)))

\* a run with the Medium tier selected, a positive mass and no drying
C19_Witness ==
    /\ RLt(Zero, input_mass)
    /\ secondary_shredding
    /\ shred_type = "Medium (50-100mm)"
    /\ stages = <<"Presorting", "Primary Shredding", "Mechanical Separation",
                  "Secondary Shredding">>
    /\ REq(output_mass, RMul(input_mass, R(95 * 97 * 983 * 97, 100 * 100 * 1000 * 100)))


\* the stages of a run, in the order of the statements of the mass balance
StagesInOrder ==
    <<"Presorting", "Primary Shredding">>
    \o (IF secondary_shredding THEN <<"Mechanical Separation">> ELSE <<>>)
    \o (IF Applied1 THEN <<drying_method_1>> ELSE <<>>)
    \o (IF Applied2 THEN <<drying_method_2>> ELSE <<>>)
    \o (IF secondary_shredding THEN <<"Secondary Shredding">> ELSE <<>>)

\* C20: the stages of every run execute in the order Presorting (x0.95),
\* Primary Shredding (x0.97), Mechanical Separation (if selected), drying
\* stage 1, drying stage 2, Secondary Shredding (x0.97, if selected, after all
\* drying stages); only the drying stages change the moisture.
C20_StageOrder ==
    /\ ~calc_error
    /\ stages = StagesInOrder
    /\ REq(effective_moisture,
           IF Applied2 THEN DRYING_METHODS[drying_method_2].output_moisture
           ELSE MoistureAfter1)
    /\ REq(output_mass,
           RMul(RMul(RMul(RMul(RMul(input_mass, R(95, 100)), R(97, 100)),
                          IF secondary_shredding THEN RSub(One, shred_loss(shred_type))
                          ELSE One),
                     DryingFactors),
                IF secondary_shredding THEN R(97, 100) ELSE One))

\* a run of all six stages: Biodrying at 40 %, Rotary Drum at the 17 % it leaves
C20_Witness ==
    /\ RLt(Zero, input_mass)
    /\ stages = <<"Presorting", "Primary Shredding", "Mechanical Separation",
                  "Biodrying", "Rotary Drum", "Secondary Shredding">>
    /\ REq(initial_moisture, R(40, 1))
    /\ REq(effective_moisture, R(10, 1))


\* C21: drying is zero, one or two stages; the second stage is tested against
\* the moisture the first stage left, not the initial moisture; a second method
\* is in effect only when a first method is selected.
C21_ChainedDrying ==
    /\ Len(DryingStagesRun) <= 2
    /\ drying_method_2 # None => drying_method_1 # None
    /\ drying_method_2 # None =>
           InRange(DRYING_METHODS[drying_method_2],
                   DRYING_METHODS[drying_method_1].output_moisture)
    /\ DryingStagesRun =
           (IF Applied1 THEN <<drying_method_1>> ELSE <<>>)
           \o (IF Applied2 THEN <<drying_method_2>> ELSE <<>>)

\* Mechanical Press at 65 %, then Solar Tunnel, whose range holds the 40 % the
\* press leaves and not the initial 65 %
C21_Witness ==
    /\ REq(initial_moisture, R(65, 1))
    /\ ~InRange(DRYING_METHODS["Solar Tunnel"], initial_moisture)
    /\ DryingStagesRun = <<"Mechanical Press", "Solar Tunnel">>
    /\ REq(effective_moisture, R(20, 1))


\* the outputs of the "SRF Classification" block are those of the heating
\* value, moisture and contaminants at hand
ClassifiedFromInputs(k) ==
    /\ ncv = k.ncv
    /\ ncv_class = k.ncv_class
    /\ cl_class = k.cl_class
    /\ hg_class = k.hg_class
    /\ srf_class = k.srf_class
    /\ warnings = k.warnings

\* C22: no derived value is carried over between runs: every output, and the
\* CO2-avoided figure the report reads from the session state, is the value
\* computed from the inputs as they are now.
C22_NoCarryOver ==
    /\ ~calc_error
    /\ hhv = compute_hhv(composition)
    /\ WithSeparation(IF secondary_shredding THEN RSub(One, shred_loss(shred_type)) ELSE One)
    /\ REq(effective_moisture,
           IF Applied2 THEN DRYING_METHODS[drying_method_2].output_moisture
           ELSE MoistureAfter1)
    /\ REq(total_energy, RMul(output_mass, hhv))
    /\ REq(co2_avoided,
           RSub(coal_emissions(RDiv(RMul(output_mass, hhv), R(24, 1))),
                srf_emissions(output_mass)))
    /\ session_co2_avoided = co2_avoided
    /\ ClassifiedFromInputs(classification(hhv, effective_moisture, contaminants))
    /\ report # Unbound =>
           /\ report # Raised("NameError")
           /\ report.co2_red = co2_avoided
           /\ REq(report.mass_loss, RSub(input_mass, output_mass))

\* a report written after the inputs were changed: its CO2 figure is that of
\* the 1000 kg of the worked composition, not the 0 of the first run
C22_Witness ==
    /\ report # Unbound
    /\ REq(input_mass, R(1000, 1))
    /\ composition = Scenario
    /\ RLt(Zero, report.co2_red)
    /\ report.co2_red = session_co2_avoided


\* C23: moisture never increases through the pipeline: every catalog entry has
\* output_moisture strictly below the lower end of its applicable range, so an
\* applied drying stage strictly lowers the moisture and
\* effective_moisture <= initial_moisture in every run.
C23_MoistureNeverIncreases ==
    /\ \A m \in Methods :
           RLt(DRYING_METHODS[m].output_moisture, DRYING_METHODS[m].applicable_moisture[1])
    /\ RLeq(effective_moisture, initial_moisture)
    /\ Applied1 => RLt(MoistureAfter1, initial_moisture)
    /\ Applied2 => RLt(effective_moisture, MoistureAfter1)
    /\ (Applied1 \/ Applied2) => RLt(effective_moisture, initial_moisture)

\* Biodrying at 40 % leaves 17 %, Rotary Drum then leaves 10 %
C23_Witness ==
    /\ REq(initial_moisture, R(40, 1))
    /\ DryingStagesRun = <<"Biodrying", "Rotary Drum">>
    /\ REq(MoistureAfter1, R(17, 1))
    /\ REq(effective_moisture, R(10, 1))
    /\ RLt(Zero, output_mass)


\* C24: the re-check of the range in the "Calculations" block never fails for
\* methods chosen through the select boxes: a set drying_method_1 has
\* initial_moisture in its range and stage 1 runs, a set drying_method_2 has the
\* output moisture of method 1 in its range and stage 2 runs, and
\* effective_moisture equals the final_moisture shown during selection.
C24_RecheckNeverFails ==
    /\ drying_method_1 # None =>
           /\ InRange(DRYING_METHODS[drying_method_1], initial_moisture)
           /\ Len(DryingStagesRun) >= 1
           /\ DryingStagesRun[1] = drying_method_1
    /\ drying_method_2 # None =>
           /\ InRange(DRYING_METHODS[drying_method_2],
                      DRYING_METHODS[drying_method_1].output_moisture)
           /\ DryingStagesRun = <<drying_method_1, drying_method_2>>
    /\ REq(effective_moisture, final_moisture)

\* Solar Tunnel chosen at 45 %, Rotary Drum at the 20 % it leaves: both stages
\* run and the result is the 10 % the selection showed
C24_Witness ==
    /\ REq(initial_moisture, R(45, 1))
    /\ drying_method_1 = "Solar Tunnel"
    /\ drying_method_2 = "Rotary Drum"
    /\ stages = <<"Presorting", "Primary Shredding", "Solar Tunnel", "Rotary Drum">>
    /\ REq(final_moisture, R(10, 1))
    /\ REq(effective_moisture, R(10, 1))


\* the positions of the moisture slider (step 0.1) from 20 % to its maximum:
\* up to 65 % some method is applicable, above 65 % none is
CatalogCoverage ==
    /\ \A t \in 200..650 : applicable_methods(R(t, 10)) # <<>>
    /\ \A t \in 651..850 : applicable_methods(R(t, 10)) = <<>>

\* C25: for every initial moisture in [20, 65] at least one drying method is
\* applicable; for every initial moisture above 65, up to the slider's 85, none
\* is: no drying is performed, effective_moisture = initial_moisture and the
\* high-moisture warning is raised.
C25_CatalogCoverage ==
    /\ CatalogCoverage
    /\ (RLeq(R(20, 1), initial_moisture) /\ RLeq(initial_moisture, R(65, 1))) =>
           /\ applicable_methods(initial_moisture) # <<>>
           /\ drying_method_1 \in Range(applicable_methods(initial_moisture))
    /\ RLt(R(65, 1), initial_moisture) =>
           /\ RLeq(initial_moisture, R(85, 1))
           /\ applicable_methods(initial_moisture) = <<>>
           /\ drying_method_1 = None
           /\ drying_method_2 = None
           /\ DryingStagesRun = <<>>
           /\ REq(effective_moisture, initial_moisture)
           /\ "High Moisture Content" \in warnings

\* a run at 65.1 %, the first position of the slider above every range
C25_Witness ==
    /\ REq(initial_moisture, R(651, 10))
    /\ drying_method_1 = None
    /\ REq(effective_moisture, R(651, 10))
    /\ "High Moisture Content" \in warnings
    /\ RLt(Zero, output_mass)


\* C26: whenever two drying stages are applied, effective_moisture is at most
\* 20 and the high-moisture warning is not raised; a run in which a drying
\* stage is applied and effective_moisture still exceeds 20 is Mechanical Press
\* applied alone, with effective_moisture 40.
C26_TwoStagesDryEnough ==
    /\ Len(DryingStagesRun) = 2 =>
           /\ RLeq(effective_moisture, R(20, 1))
           /\ "High Moisture Content" \notin warnings
    /\ (DryingStagesRun # <<>> /\ RLt(R(20, 1), effective_moisture)) =>
           /\ DryingStagesRun = <<"Mechanical Press">>
           /\ REq(effective_moisture, R(40, 1))
           /\ "High Moisture Content" \in warnings

\* Mechanical Press at 60 %, then Solar Tunnel: two stages, 20 %, no warning
C26_Witness ==
    /\ DryingStagesRun = <<"Mechanical Press", "Solar Tunnel">>
    /\ REq(initial_moisture, R(60, 1))
    /\ REq(effective_moisture, R(20, 1))
    /\ "High Moisture Content" \notin warnings
    /\ RLt(Zero, output_mass)


\* the class one mercury value alone gets against its column of HgBoundPairs
\* (column 1 the median, column 2 the 80th percentile), capped at 5
HgColumnClass(value, column) ==
    LET met == {i \in 1..5 : RLeq(value, R(HgBoundPairs[i][column], 100))}
    IN  IF met = {} THEN 5 ELSE CHOOSE i \in met : \A j \in met : i <= j

\* C27: hg_class is the worse (larger) of the class the median alone gets
\* against 0.02/0.03/0.08/0.15/0.50 and the class the 80th percentile alone
\* gets against 0.04/0.06/0.16/0.30/1.00, each capped at 5; raising either
\* mercury value never improves hg_class.
C27_MercuryWorseOfTwo ==
    /\ hg_class = Max3(HgColumnClass(contaminants.Mercury_median, 1),
                       HgColumnClass(contaminants.Mercury_80th, 2), 1)
    /\ \A h \in MedianHundredths :
           RLeq(contaminants.Mercury_median, R(h, 100)) =>
               hg_class <= classify_hg(R(h, 100), contaminants.Mercury_80th)
    /\ \A h \in Percentile80Hundredths :
           RLeq(contaminants.Mercury_80th, R(h, 100)) =>
               hg_class <= classify_hg(contaminants.Mercury_median, R(h, 100))

\* median 0.02 is class 1 alone, 80th percentile 0.16 is class 3 alone: class 3
C27_Witness ==
    /\ REq(contaminants.Mercury_median, R(2, 100))
    /\ REq(contaminants.Mercury_80th, R(16, 100))
    /\ HgColumnClass(contaminants.Mercury_median, 1) = 1
    /\ HgColumnClass(contaminants.Mercury_80th, 2) = 3
    /\ hg_class = 3


\* two consecutive runs agree on what the classification reads
SameClassInputs ==
    /\ composition' = composition
    /\ contaminants' = contaminants
    /\ initial_moisture' = initial_moisture
    /\ drying_method_1' = drying_method_1
    /\ drying_method_2' = drying_method_2

\* two consecutive runs report the same classification
SameClassification ==
    /\ ncv' = ncv
    /\ ncv_class' = ncv_class
    /\ cl_class' = cl_class
    /\ hg_class' = hg_class
    /\ srf_class' = srf_class
    /\ warnings' = warnings

\* C28: the classification does not depend on quantity or shredding: runs that
\* agree on composition, contaminants, initial moisture and drying selections
\* and differ in input_mass, secondary shredding or particle-size tier give the
\* same ncv, ncv_class, cl_class, hg_class, srf_class and warnings; they are
\* those of the composition, the contaminants and the moisture the drying
\* selection leaves.
C28_ClassIgnoresMassAndShredding ==
    /\ [](ClassifiedFromInputs(
              classification(compute_hhv(composition),
                             IF Applied2
                             THEN DRYING_METHODS[drying_method_2].output_moisture
                             ELSE MoistureAfter1,
                             contaminants)))
    /\ [][SameClassInputs => SameClassification]_vars

\* 1000 kg of the worked composition, Rotary Drum at 30 %, secondary shredding
\* to the Rough tier: ncv 19.88 and class 3, as for any other mass and tier
C28_Witness ==
    /\ REq(input_mass, R(1000, 1))
    /\ secondary_shredding
    /\ shred_type = "Rough (>100mm)"
    /\ composition = Scenario
    /\ REq(initial_moisture, R(30, 1))
    /\ drying_method_1 = "Rotary Drum"
    /\ REq(ncv, R(1988, 100))
    /\ ncv_class = 3
    /\ srf_class = 3


\* C29: for output_mass > 0 the percentage of avoided CO2 is
\* 100 * (1 - 7.28/hhv), stated as percent * hhv = 100 * (hhv - 7.28), and
\* co2_avoided is positive exactly when hhv > 7.28, zero at hhv = 7.28 and
\* negative below it, whatever the mass, moisture, drying and shredding.
C29_AvoidedCo2SignFromHhv ==
    RLt(Zero, output_mass) =>
        /\ RLt(Zero, hhv) =>
               /\ co2_metric # Unbound
               /\ co2_metric # Raised("ZeroDivisionError")
               /\ REq(RMul(co2_metric, hhv), RMul(Hundred, RSub(hhv, R(728, 100))))
        /\ RLt(Zero, co2_avoided) <=> RLt(R(728, 100), hhv)
        /\ RIsZero(co2_avoided) <=> REq(hhv, R(728, 100))
        /\ RLt(co2_avoided, Zero) <=> RLt(hhv, R(728, 100))

\* a dried and shredded batch at hhv = 7.28: nothing is avoided, 0.0 %
C29_Witness ==
    /\ RLt(Zero, output_mass)
    /\ REq(hhv, R(728, 100))
    /\ DryingStagesRun # <<>>
    /\ secondary_shredding
    /\ RIsZero(co2_avoided)
    /\ co2_metric = Zero


\* the ncv_class the material of this run would get at the given moisture
NcvClassAt(moisture) == classify_ncv(compute_ncv(hhv, moisture))

\* C30: for a fixed composition with hhv >= 0, ncv is non-increasing in
\* effective_moisture and ncv_class never gets a smaller number as
\* effective_moisture grows; with the contaminants fixed, applying the drying
\* stages never makes ncv_class or srf_class worse than skipping them.
C30_DryingNeverHurtsClass ==
    /\ RLeq(Zero, hhv)
    /\ \A m \in Moistures :
           /\ RLeq(effective_moisture, m) =>
                  /\ RLeq(compute_ncv(hhv, m), ncv)
                  /\ ncv_class <= NcvClassAt(m)
           /\ RLeq(m, effective_moisture) =>
                  /\ RLeq(ncv, compute_ncv(hhv, m))
                  /\ NcvClassAt(m) <= ncv_class
    /\ RLeq(compute_ncv(hhv, initial_moisture), ncv)
    /\ ncv_class <= NcvClassAt(initial_moisture)
    /\ srf_class <= Max3(NcvClassAt(initial_moisture), cl_class, hg_class)

\* the worked composition at 30 %: class 4 undried, class 3 after Rotary Drum
C30_Witness ==
    /\ composition = Scenario
    /\ REq(initial_moisture, R(30, 1))
    /\ DryingStagesRun = <<"Rotary Drum">>
    /\ NcvClassAt(initial_moisture) = 4
    /\ ncv_class = 3
    /\ srf_class = 3

====
